---- MODULE Spec2Model ----
(***************************************************************************)
(* A model of ecr_search_tool.py: the REPD/ECR matching run.               *)
(*                                                                         *)
(* Cells of a loaded spreadsheet are tagged values.  A numeric column cell *)
(* is Num(n) (a number), Txt(n) (text that parses as n, e.g. "100"), Bad   *)
(* (text that does not parse) or NaN (an empty cell).  A text column cell  *)
(* is Str(s), s a sequence of one-character strings, or NaNText (an empty  *)
(* cell, which pandas loads as the float nan).  Coordinates are metres.    *)
(***************************************************************************)
EXTENDS Integers, Sequences, FiniteSets, TLC

VARIABLES pc, repd_df, ecr_df, start_id, end_id, repd, ecr, results,
          i, queries, scored, error, output

vars == <<pc, repd_df, ecr_df, start_id, end_id, repd, ecr, results,
          i, queries, scored, error, output>>

\* ------------------------------------------------------------ parameters
BUFFER_DISTANCE_KM == 2

\* CAPACITY_TOLERANCE = 0.1, kept as the denominator of 1/10
CAPACITY_TOLERANCE_DEN == 10

TEXT_SIMILARITY_THRESHOLD == 70

\* ------------------------------------------------------------ bounds
\* rows of the project (REPD) table in a run
MaxRepd == 2

\* rows of the connection (ECR) table in a run
MaxEcr == 2

\* rows of the project table when the scorer's inputs are enumerated
MaxScoreRepd == 1

\* ------------------------------------------------------------ cells
Num(n) == [k |-> "num", v |-> n]

Txt(n) == [k |-> "txt", v |-> n]

Bad == [k |-> "bad", v |-> 0]

NaN == [k |-> "nan", v |-> 0]

\* Python's None: no cell of a loaded or coerced table ever holds it
None == [k |-> "none", v |-> 0]

Str(s) == [k |-> "str", s |-> s]

NaNText == [k |-> "nan", s |-> <<>>]

\* the text typed into a st.text_input that was left empty
EmptyInput == [k |-> "empty", v |-> 0]

\* pd.to_numeric(value, errors="coerce"), mutated: unparsable text becomes 0
ToNumericFillZero(c) ==
    IF c.k \in {"num", "txt"} THEN Num(c.v)
    ELSE IF c.k = "bad" THEN Num(0) ELSE NaN

\* pd.to_numeric(value, errors="coerce"): a number stays, numeric text becomes
\* its number, anything else becomes the missing marker
ToNumeric(c) == IF c.k \in {"num", "txt"} THEN Num(c.v) ELSE NaN

\* pd.notna(value)
NotNa(c) == c.k = "num"

\* str(value) of a text cell: the float nan prints as "nan"
PyStr(c) == IF c.k = "nan" THEN <<"n", "a", "n">> ELSE c.s

\* one character of str.lower()
LowerChar(c) ==
    CASE c = "A" -> "a"
      [] c = "B" -> "b"
      [] c = "L" -> "l"
      [] c = "N" -> "n"
      [] c = "O" -> "o"
      [] c = "R" -> "r"
      [] c = "S" -> "s"
      [] OTHER -> c

\* str.lower()
Lower(s) == [j \in 1..Len(s) |-> LowerChar(s[j])]

IsNotSpace(c) == c # " "

\* str.replace(" ", "")
RemoveSpaces(s) == SelectSeq(s, IsNotSpace)

\* ------------------------------------------------------------ geometry
\* gpd.points_from_xy on one row: a point is built from whatever the two
\* float cells hold, nan included (POINT (nan nan)); it is never None
PointFromXY(x, y) == [k |-> "point", x |-> x, y |-> y]

\* geom.buffer(radius): GEOS skips an invalid (nan) coordinate and returns
\* the empty polygon
Buffer(geom, radius) ==
    IF NotNa(geom.x) /\ NotNa(geom.y)
    THEN [k |-> "disc", x |-> geom.x.v, y |-> geom.y.v, r |-> radius]
    ELSE [k |-> "emptypolygon", x |-> 0, y |-> 0, r |-> 0]

\* point.intersects(polygon), boundary included; a nan point or an empty
\* polygon intersects nothing
Intersects(geom, buffer) ==
    /\ buffer.k = "disc"
    /\ NotNa(geom.x)
    /\ NotNa(geom.y)
    /\ (geom.x.v - buffer.x) * (geom.x.v - buffer.x)
         + (geom.y.v - buffer.y) * (geom.y.v - buffer.y) <= buffer.r * buffer.r

\* ------------------------------------------------------------ rapidfuzz
\* ord(c) for the characters the tables use
Ord(c) ==
    CASE c = " " -> 32
      [] c = "1" -> 49
      [] c = "2" -> 50
      [] c = "A" -> 65
      [] c = "a" -> 97
      [] c = "b" -> 98
      [] c = "c" -> 99
      [] c = "d" -> 100
      [] c = "n" -> 110
      [] c = "x" -> 120
      [] c = "y" -> 121
      [] c = "z" -> 122
      [] OTHER -> 63

RECURSIVE SplitAcc(_, _, _)
SplitAcc(s, cur, acc) ==
    IF s = <<>>
    THEN IF cur = <<>> THEN acc ELSE Append(acc, cur)
    ELSE IF Head(s) = " "
         THEN SplitAcc(Tail(s), <<>>, IF cur = <<>> THEN acc ELSE Append(acc, cur))
         ELSE SplitAcc(Tail(s), Append(cur, Head(s)), acc)

\* s.split()
Split(s) == SplitAcc(s, <<>>, <<>>)

RECURSIVE StrLeq(_, _)
StrLeq(a, b) ==
    IF a = <<>> THEN TRUE
    ELSE IF b = <<>> THEN FALSE
    ELSE IF Ord(Head(a)) # Ord(Head(b)) THEN Ord(Head(a)) < Ord(Head(b))
    ELSE StrLeq(Tail(a), Tail(b))

RECURSIVE InsertToken(_, _)
InsertToken(t, sorted) ==
    IF sorted = <<>> THEN <<t>>
    ELSE IF StrLeq(t, Head(sorted)) THEN <<t>> \o sorted
    ELSE <<Head(sorted)>> \o InsertToken(t, Tail(sorted))

RECURSIVE SortTokens(_)
SortTokens(ts) ==
    IF ts = <<>> THEN <<>> ELSE InsertToken(Head(ts), SortTokens(Tail(ts)))

RECURSIVE JoinTokens(_)
JoinTokens(ts) ==
    IF ts = <<>> THEN <<>>
    ELSE IF Len(ts) = 1 THEN Head(ts)
    ELSE Head(ts) \o <<" ">> \o JoinTokens(Tail(ts))

RECURSIVE LCSLen(_, _)
LCSLen(a, b) ==
    IF a = <<>> \/ b = <<>> THEN 0
    ELSE IF Head(a) = Head(b) THEN 1 + LCSLen(Tail(a), Tail(b))
    ELSE LET l == LCSLen(Tail(a), b)
             r == LCSLen(a, Tail(b))
         IN  IF l >= r THEN l ELSE r

\* fuzz.ratio: 100 * 2*LCS / (len1 + len2), here rounded down (the
\* comparison with an integer threshold is not changed by that)
Ratio(a, b) ==
    IF Len(a) + Len(b) = 0 THEN 100
    ELSE (200 * LCSLen(a, b)) \div (Len(a) + Len(b))

\* fuzz.token_sort_ratio
TokenSortRatio(a, b) ==
    Ratio(JoinTokens(SortTokens(Split(a))), JoinTokens(SortTokens(Split(b))))

\* ------------------------------------------------------------ the scorer
\* the reason list of a candidate before any signal is evaluated, mutated:
\* the spatial tag is forgotten
NoInitialReason == <<>>

\* match_reasons = ["spatial"]
InitialReasons == <<"spatial">>

Abs(n) == IF n < 0 THEN -n ELSE n

\* the capacity test, mutated: the tolerance is scaled by the connection side
CapacityMatchEcrScaled(repd_cap, ecr_cap) ==
    /\ NotNa(repd_cap)
    /\ NotNa(ecr_cap)
    /\ Abs(repd_cap.v - ecr_cap.v) * CAPACITY_TOLERANCE_DEN <= ecr_cap.v

\* pd.notna(repd_cap) and pd.notna(ecr_cap) and
\* abs(repd_cap - ecr_cap) <= CAPACITY_TOLERANCE * repd_cap
CapacityMatch(repd_cap, ecr_cap) ==
    /\ NotNa(repd_cap)
    /\ NotNa(ecr_cap)
    /\ Abs(repd_cap.v - ecr_cap.v) * CAPACITY_TOLERANCE_DEN <= repd_cap.v

\* str(a) + " " + str(b)
Concat(a, b) == PyStr(a) \o <<" ">> \o PyStr(b)

\* fuzz.token_sort_ratio(p, c) >= TEXT_SIMILARITY_THRESHOLD
TextMatch(p, c) == TokenSortRatio(p, c) >= TEXT_SIMILARITY_THRESHOLD

\* str(cell).replace(" ", "").lower()
NormPostcode(c) == Lower(RemoveSpaces(PyStr(c)))

\* repd_pc and repd_pc == ecr_pc
PostcodeMatch(repd_pc, ecr_pc) == repd_pc # <<>> /\ repd_pc = ecr_pc

\* one evidence string, f"{tag}: {val}"
Ev(tag, val) == [tag |-> tag, val |-> val]

\* the body of the candidate loop up to the score: the three lists of one
\* candidate
ScoreCandidate(repd_row, ecr_row) ==
    LET repd_cap == repd_row.Installed_Capacity
        ecr_cap == ecr_row.Accepted_to_Connect_Registered_
        cap == CapacityMatch(repd_cap, ecr_cap)
        repd_text_a == Concat(repd_row.Operator, repd_row.Site_Name)
        ecr_text_a == Concat(ecr_row.Customer_Name, ecr_row.Customer_Site)
        ta == TextMatch(repd_text_a, ecr_text_a)
        repd_text_b == Concat(repd_row.Site_Name, repd_row.Address)
        ecr_text_b == Concat(ecr_row.Customer_Site, ecr_row.Address_Line_1)
        tb == TextMatch(repd_text_b, ecr_text_b)
        repd_pc == NormPostcode(repd_row.Post_Code)
        ecr_pc == NormPostcode(ecr_row.Postcode)
        pcm == PostcodeMatch(repd_pc, ecr_pc)
    IN  [match_reasons |->
            InitialReasons
            \o (IF cap THEN <<"capacity">> ELSE <<>>)
            \o (IF ta THEN <<"text(GrpA)">> ELSE <<>>)
            \o (IF tb THEN <<"text(GrpB)">> ELSE <<>>)
            \o (IF pcm THEN <<"postcode">> ELSE <<>>),
         match_repd |->
            (IF cap THEN <<Ev("capacity", repd_cap)>> ELSE <<>>)
            \o (IF ta THEN <<Ev("textA", repd_text_a)>> ELSE <<>>)
            \o (IF tb THEN <<Ev("textB", repd_text_b)>> ELSE <<>>)
            \o (IF pcm THEN <<Ev("postcode", repd_pc)>> ELSE <<>>),
         match_ecr |->
            (IF cap THEN <<Ev("capacity", ecr_cap)>> ELSE <<>>)
            \o (IF ta THEN <<Ev("textA", ecr_text_a)>> ELSE <<>>)
            \o (IF tb THEN <<Ev("textB", ecr_text_b)>> ELSE <<>>)
            \o (IF pcm THEN <<Ev("postcode", ecr_pc)>> ELSE <<>>)]

\* ------------------------------------------------------------ the selector
\* best_match = None; best_score = -1; reasons = []; repd_details = [];
\* ecr_details = []
InitBest ==
    [best_match |-> None, best_score |-> -1, reasons |-> <<>>,
     repd_details |-> <<>>, ecr_details |-> <<>>]

\* the update, mutated: a candidate that only equals the best score replaces it
UpdateBestOnTie(b, ecr_row, m) ==
    IF Len(m.match_reasons) >= b.best_score
    THEN [best_match |-> ecr_row, best_score |-> Len(m.match_reasons),
          reasons |-> m.match_reasons, repd_details |-> m.match_repd,
          ecr_details |-> m.match_ecr]
    ELSE b

\* the update, mutated: the evidence lists of the new best are not taken over
UpdateBestStaleDetails(b, ecr_row, m) ==
    IF Len(m.match_reasons) > b.best_score
    THEN [best_match |-> ecr_row, best_score |-> Len(m.match_reasons),
          reasons |-> m.match_reasons, repd_details |-> b.repd_details,
          ecr_details |-> b.ecr_details]
    ELSE b

\* score = len(match_reasons); if score > best_score: take the candidate over
UpdateBest(b, ecr_row, m) ==
    IF Len(m.match_reasons) > b.best_score
    THEN [best_match |-> ecr_row, best_score |-> Len(m.match_reasons),
          reasons |-> m.match_reasons, repd_details |-> m.match_repd,
          ecr_details |-> m.match_ecr]
    ELSE b

\* what the candidate loop computes for each candidate, in its order
ScoredCandidates(cands, repd_row) ==
    [j \in 1..Len(cands) |->
        [ecr_row |-> cands[j], m |-> ScoreCandidate(repd_row, cands[j])]]

\* for _, ecr_row in ecr_candidates.iterrows(): score, then update the best
RECURSIVE ScanCandidates(_, _)
ScanCandidates(sc, b) ==
    IF sc = <<>> THEN b
    ELSE ScanCandidates(Tail(sc), UpdateBest(b, Head(sc).ecr_row, Head(sc).m))

\* ------------------------------------------------------------ result fields
\* the "NF" sentinel
NF == [nf |-> TRUE, v |-> <<>>]

\* a value written over the sentinel; a joined list is kept as the list of
\* the items joined
Val(x) == [nf |-> FALSE, v |-> x]

\* results.at[idx, ...] = ... for the four result fields
SaveBest(row, b) ==
    IF b.best_match # None
    THEN [row EXCEPT !.Matched_ECR_ID = Val(b.best_match.ECR_ID),
                     !.Matching_Reason = Val(b.reasons),
                     !.Matched_Details_REPD = Val(b.repd_details),
                     !.Matched_Details_ECR = Val(b.ecr_details)]
    ELSE row

\* ------------------------------------------------------------ preparation
\* the range test, mutated: the upper bound is exclusive
InRangeExclusiveEnd(id, lo, hi) == NotNa(id) /\ lo <= id.v /\ id.v < hi

\* (repd["REPD_ID"] >= start_id) & (repd["REPD_ID"] <= end_id); a comparison
\* with nan is False
InRange(id, lo, hi) == NotNa(id) /\ lo <= id.v /\ id.v <= hi

\* repd_df.copy() with REPD_ID forced numeric, filtered to the range, then
\* safe_to_numeric on the coordinates and the capacity
PrepareRepd(df, lo, hi) ==
    LET coerced == [j \in 1..Len(df) |->
                       [df[j] EXCEPT !.REPD_ID = ToNumeric(@)]]
        kept == SelectSeq(coerced, LAMBDA r: InRange(r.REPD_ID, lo, hi))
    IN  [j \in 1..Len(kept) |->
            [kept[j] EXCEPT !.X_coordinate = ToNumeric(@),
                            !.Y_coordinate = ToNumeric(@),
                            !.Installed_Capacity = ToNumeric(@)]]

\* repd.insert(0, col, "NF") for the four result columns (a geometry column,
\* which some pandas versions let the GeoDataFrame add to repd, is left out)
WithResultColumns(row) ==
    row @@ [Matched_ECR_ID |-> NF, Matching_Reason |-> NF,
            Matched_Details_REPD |-> NF, Matched_Details_ECR |-> NF]

\* the source filter, mutated: every connection record is kept
AnySource(source) == TRUE

\* ecr_df["Energy_Source_1"].str.lower() == "solar"; an empty cell compares
\* False
IsSolar(source) ==
    source.k = "str" /\ Lower(source.s) = <<"s", "o", "l", "a", "r">>

\* the solar rows of ecr_df, then safe_to_numeric on the coordinates and the
\* capacity
PrepareEcr(df) ==
    LET kept == SelectSeq(df, LAMBDA e: IsSolar(e.Energy_Source_1))
    IN  [j \in 1..Len(kept) |->
            [kept[j] EXCEPT
                !.Location__X_coordinate___Eastin = ToNumeric(@),
                !.Location__y_coordinate___Northi = ToNumeric(@),
                !.Accepted_to_Connect_Registered_ = ToNumeric(@)]]

\* gpd.GeoDataFrame(repd, geometry=gpd.points_from_xy(...))
RepdGeo(rows) ==
    [j \in 1..Len(rows) |->
        rows[j] @@ [geometry |->
            PointFromXY(rows[j].X_coordinate, rows[j].Y_coordinate)]]

\* gpd.GeoDataFrame(ecr, geometry=gpd.points_from_xy(...))
EcrGeo(rows) ==
    [j \in 1..Len(rows) |->
        rows[j] @@ [geometry |->
            PointFromXY(rows[j].Location__X_coordinate___Eastin,
                        rows[j].Location__y_coordinate___Northi)]]

\* ------------------------------------------------------------ state
NoOutput == [shown |-> FALSE, table |-> <<>>, file |-> <<>>]

\* the script before any file is uploaded
Init ==
    /\ pc = "upload"
    /\ repd_df = <<>>
    /\ ecr_df = <<>>
    /\ start_id = EmptyInput
    /\ end_id = EmptyInput
    /\ repd = <<>>
    /\ ecr = <<>>
    /\ results = <<>>
    /\ i = 1
    /\ queries = <<>>
    /\ scored = <<>>
    /\ error = "none"
    /\ output = NoOutput

\* both tables are read from the upload; the index is the row's position
Upload(repdTables, ecrTables) ==
    /\ pc = "upload"
    /\ \E r \in repdTables, e \in ecrTables :
          /\ repd_df' = r
          /\ ecr_df' = e
    /\ pc' = "loaded"
    /\ UNCHANGED <<start_id, end_id, repd, ecr, results, i, queries, scored,
                   error, output>>

\* int(text) succeeds
Parses(t) == t.k = "txt"

\* the "Run Matching" button with both texts filled in: the bounds are
\* parsed, the tables prepared and the geometries built.  geomOk is whether
\* the construction of the point geometries succeeds.
RunMatching(s, e, geomOk) ==
    /\ pc = "loaded"
    /\ s # EmptyInput
    /\ e # EmptyInput
    /\ \/ /\ ~(Parses(s) /\ Parses(e))
          /\ error' = "REPD_ID range must be numeric"
          /\ pc' = "aborted"
          /\ UNCHANGED <<start_id, end_id, repd, ecr, results, i, queries,
                         scored>>
       \/ /\ Parses(s) /\ Parses(e)
          /\ ~geomOk
          /\ error' = "Coordinate error"
          /\ pc' = "aborted"
          /\ UNCHANGED <<start_id, end_id, repd, ecr, results, i, queries,
                         scored>>
       \/ /\ Parses(s) /\ Parses(e)
          /\ geomOk
          /\ LET prepared == PrepareRepd(repd_df, s.v, e.v)
             IN  /\ repd' = RepdGeo(prepared)
                 /\ results' = [j \in 1..Len(prepared) |->
                                   WithResultColumns(prepared[j])]
                 /\ queries' = [j \in 1..Len(prepared) |-> 0]
                 /\ scored' = [j \in 1..Len(prepared) |-> <<>>]
          /\ start_id' = Num(s.v)
          /\ end_id' = Num(e.v)
          /\ ecr' = EcrGeo(PrepareEcr(ecr_df))
          /\ i' = 1
          /\ pc' = "matching"
          /\ UNCHANGED error
    /\ UNCHANGED <<repd_df, ecr_df, output>>

\* one pass of the loop over repd_gdf.iterrows(): the coordinate guard, the
\* buffer query, the candidate loop and the saving of the best match
MatchRecord ==
    /\ pc = "matching"
    /\ i <= Len(repd)
    /\ LET repd_row == repd[i]
           repd_geom == repd_row.geometry
           skip == \/ repd_geom = None
                   \/ repd_row.X_coordinate = None
                   \/ repd_row.Y_coordinate = None
           buffer == Buffer(repd_geom, BUFFER_DISTANCE_KM * 1000)
           ecr_candidates ==
               SelectSeq(ecr, LAMBDA c: Intersects(c.geometry, buffer))
           sc == ScoredCandidates(ecr_candidates, repd_row)
           best == ScanCandidates(sc, InitBest)
       IN  /\ queries' = IF skip THEN queries
                         ELSE [queries EXCEPT ![i] = @ + 1]
           /\ scored' = IF skip THEN scored
                        ELSE [scored EXCEPT
                                 ![i] = [j \in 1..Len(sc) |->
                                            [ecr_idx |-> sc[j].ecr_row.idx,
                                             m |-> sc[j].m]]]
           /\ results' = IF skip \/ ecr_candidates = <<>> THEN results
                         ELSE [results EXCEPT ![i] = SaveBest(@, best)]
    /\ i' = i + 1
    /\ UNCHANGED <<pc, repd_df, ecr_df, start_id, end_id, repd, ecr, error,
                   output>>

\* the loop test, mutated: the table is shown from inside the loop
LoopFinishedEarly == TRUE

\* the for loop over the project rows has run out
LoopFinished == i > Len(repd)

\* st.dataframe(results), results.to_excel(out_file) and the download button
ShowResults ==
    /\ pc = "matching"
    /\ LoopFinished
    /\ output' = [shown |-> TRUE, table |-> results,
                  file |-> <<start_id.v, end_id.v>>]
    /\ pc' = "done"
    /\ UNCHANGED <<repd_df, ecr_df, start_id, end_id, repd, ecr, results, i,
                   queries, scored, error>>

\* ------------------------------------------------------------ inputs
RepdRow(id, x, y, cap, pcode) ==
    [idx |-> 0, REPD_ID |-> id, X_coordinate |-> x, Y_coordinate |-> y,
     Installed_Capacity |-> cap, Operator |-> Str(<<"a">>),
     Site_Name |-> Str(<<"b">>), Address |-> Str(<<"c">>),
     Post_Code |-> pcode]

EcrRow(source, x, cap, name, site, addr, pcode) ==
    [idx |-> 0, ECR_ID |-> 0, Energy_Source_1 |-> source,
     Location__X_coordinate___Eastin |-> x,
     Location__y_coordinate___Northi |-> Num(0),
     Accepted_to_Connect_Registered_ |-> cap,
     Customer_Name |-> name, Customer_Site |-> site,
     Address_Line_1 |-> addr, Postcode |-> pcode]

\* the tables of n rows over a set of rows; the index is the position
RepdTables(rows, n) ==
    {[j \in 1..n |-> [f[j] EXCEPT !.idx = j]] : f \in [1..n -> rows]}

\* the same for connection records, whose ECR_ID is unique
EcrTables(rows, n) ==
    {[j \in 1..n |-> [f[j] EXCEPT !.idx = j, !.ECR_ID = j]] :
        f \in [1..n -> rows]}

\* what the user may type as a bound
TextInputs == {Txt(1), Txt(2), Bad, EmptyInput}

\* project rows of a run: ids below, on and above the bounds, as numbers,
\* as numeric text and unparsable; the x coordinate usable or not
RunRepdRows ==
    {RepdRow(id, x, Num(0), Txt(100), Str(<<"A", " ", "1">>)) :
        id \in {Num(1), Txt(2), Num(3), Bad},
        x \in {Txt(0), Bad}}

\* connection rows of a run: a "Solar" row nearby that matches on place and
\* capacity, a non-solar row on the spot that matches on everything, a solar
\* row out of reach that would match on everything
RunEcrRows ==
    {EcrRow(Str(<<"S", "o", "l", "a", "r">>), Txt(1000), Num(100),
            Str(<<"x">>), Str(<<"y">>), Str(<<"z">>), Str(<<" ">>)),
     EcrRow(Str(<<"w", "i", "n", "d">>), Num(0), Num(100),
            Str(<<"a">>), Str(<<"b">>), Str(<<"c">>), Str(<<"a", "1">>)),
     EcrRow(Str(<<"s", "o", "l", "a", "r">>), Num(5000), Num(100),
            Str(<<"a">>), Str(<<"b">>), Str(<<"c">>), Str(<<"a", "1">>))}

\* project rows for the scorer: in range, on the spot
ScoreRepdRows ==
    {RepdRow(Num(1), Num(0), Num(0), cap, pcode) :
        cap \in {Num(100), Bad},
        pcode \in {Str(<<"A", " ", "1">>), NaNText}}

\* the capacity and the three text cells of a connection row for the scorer:
\* against the project texts a, b, c the first matches no text group, the
\* second both, the third group A only, the fourth group B only
ScoreEcrCapText ==
    {<<Num(90), Str(<<"x">>), Str(<<"y">>), Str(<<"z">>)>>,
     <<Txt(110), Str(<<"a">>), Str(<<"b">>), Str(<<"c">>)>>,
     <<Num(111), Str(<<"b">>), Str(<<"a">>), Str(<<"z">>)>>,
     <<Bad, Str(<<"x">>), Str(<<"b">>), Str(<<"c">>)>>}

\* connection rows for the scorer: solar, nearby
ScoreEcrRows ==
    {EcrRow(Str(<<"s", "o", "l", "a", "r">>), Num(1000), t[1],
            t[2], t[3], t[4], pcode) :
        t \in ScoreEcrCapText,
        pcode \in {Str(<<"a", "1">>), NaNText}}

UploadRun ==
    Upload(RepdTables(RunRepdRows, MaxRepd), EcrTables(RunEcrRows, MaxEcr))

UploadScore ==
    Upload(RepdTables(ScoreRepdRows, MaxScoreRepd),
           EcrTables(ScoreEcrRows, MaxEcr))

Run == \E s \in TextInputs, e \in TextInputs, g \in BOOLEAN : RunMatching(s, e, g)

Next == UploadRun \/ Run \/ MatchRecord \/ ShowResults

Spec == Init /\ [][Next]_vars

NextScore == UploadScore \/ Run \/ MatchRecord \/ ShowResults

SpecScore == Init /\ [][NextScore]_vars

\* ------------------------------------------------------------ properties
\* a loaded cell that holds a number, as a number or as numeric text
IsNumeric(c) == c.k \in {"num", "txt"}

\* the run has prepared its tables
Prepared == pc \in {"matching", "done"}

\* the pass of the loop over row j of the prepared project table is over
Processed(j) == Prepared /\ j < i

AllNF(row) ==
    /\ row.Matched_ECR_ID.nf
    /\ row.Matching_Reason.nf
    /\ row.Matched_Details_REPD.nf
    /\ row.Matched_Details_ECR.nf

\* row is matched to the connection record of index e
MatchedTo(row, e) == ~row.Matched_ECR_ID.nf /\ row.Matched_ECR_ID.v = e

\* the elements of a sequence
Range(seq) == {seq[j] : j \in 1..Len(seq)}

\* C1: the output table holds exactly one row for each loaded project record
\* whose id is numeric and lies in [start_id, end_id], both bounds included,
\* and no row for any other loaded project record.
C1_RowsInRange ==
    output.shown =>
        \A j \in 1..Len(repd_df) :
            LET id == repd_df[j].REPD_ID
                inside == /\ IsNumeric(id)
                          /\ start_id.v <= id.v
                          /\ id.v <= end_id.v
            IN  Cardinality({r \in 1..Len(output.table) :
                                output.table[r].idx = j})
                    = IF inside THEN 1 ELSE 0

\* a shown table with a row whose id is the upper bound, while the loaded
\* table also holds a record left out
C1_Witness ==
    /\ output.shown
    /\ \E r \in 1..Len(output.table) : output.table[r].REPD_ID.v = end_id.v
    /\ Len(output.table) < Len(repd_df)

\* C2: the connection record written as a match is never one whose energy
\* source differs from "solar" up to case, and the candidate table of the run,
\* fixed before the first buffer query, holds the solar rows only.
C2_OnlySolarMatched ==
    Prepared =>
        /\ \A c \in 1..Len(ecr) :
              Lower(ecr_df[ecr[c].idx].Energy_Source_1.s)
                  = <<"s", "o", "l", "a", "r">>
        /\ \A r \in 1..Len(results) :
              ~results[r].Matched_ECR_ID.nf =>
                  Lower(ecr_df[results[r].Matched_ECR_ID.v].Energy_Source_1.s)
                      = <<"s", "o", "l", "a", "r">>

\* a project record matched to a solar row although a non-solar row lies on
\* the very spot
C2_Witness ==
    /\ pc = "done"
    /\ \E r \in 1..Len(results) : ~results[r].Matched_ECR_ID.nf
    /\ \E e \in 1..Len(ecr_df) :
          /\ ecr_df[e].Energy_Source_1.s = <<"w", "i", "n", "d">>
          /\ ecr_df[e].Location__X_coordinate___Eastin = Num(0)

\* C3 as claimed: for a project record in range with a missing or non-numeric
\* coordinate no buffer query is executed and the result fields stay "NF".
C3_NoQueryWithoutCoordinates ==
    \A j \in 1..Len(repd) :
        (Processed(j)
         /\ (~IsNumeric(repd_df[repd[j].idx].X_coordinate)
             \/ ~IsNumeric(repd_df[repd[j].idx].Y_coordinate)))
        => (queries[j] = 0 /\ AllNF(results[j]))

\* the score of entry k of a candidate history
ScoreOf(hist, k) == Len(hist[k].m.match_reasons)

\* C4: with a non-empty candidate set the record written as the match is the
\* first candidate, in the order of the candidate loop, among those of the
\* highest score.
C4_FirstMaximum ==
    \A j \in 1..Len(results) :
        (Processed(j) /\ scored[j] # <<>>) =>
            \E w \in 1..Len(scored[j]) :
                /\ MatchedTo(results[j], scored[j][w].ecr_idx)
                /\ \A k \in 1..Len(scored[j]) :
                      ScoreOf(scored[j], k) <= ScoreOf(scored[j], w)
                /\ \A k \in 1..(w - 1) :
                      ScoreOf(scored[j], k) < ScoreOf(scored[j], w)

\* a match won on a tie: a later candidate has the winner's score
C4_Witness ==
    \E j \in 1..Len(results) :
        /\ Processed(j)
        /\ \E w \in 1..Len(scored[j]) :
              /\ MatchedTo(results[j], scored[j][w].ecr_idx)
              /\ ScoreOf(scored[j], w) >= 3
              /\ \E k \in (w + 1)..Len(scored[j]) :
                    ScoreOf(scored[j], k) = ScoreOf(scored[j], w)

\* the loaded connection record e is solar and lies within the buffer
\* distance of the loaded project record p
Reaches(p, e) ==
    /\ e.Energy_Source_1.k = "str"
    /\ Lower(e.Energy_Source_1.s) = <<"s", "o", "l", "a", "r">>
    /\ IsNumeric(p.X_coordinate) /\ IsNumeric(p.Y_coordinate)
    /\ IsNumeric(e.Location__X_coordinate___Eastin)
    /\ IsNumeric(e.Location__y_coordinate___Northi)
    /\ LET dx == e.Location__X_coordinate___Eastin.v - p.X_coordinate.v
           dy == e.Location__y_coordinate___Northi.v - p.Y_coordinate.v
       IN  dx * dx + dy * dy <= 2000 * 2000

\* C5: a processed record has all four result fields at "NF" exactly when no
\* eligible connection record lies within its buffer (a record without usable
\* coordinates among them); otherwise it has a matched id and a reason list
\* that starts with "spatial", and every scored candidate scores at least 1.
C5_SentinelIffNoCandidate ==
    \A j \in 1..Len(results) :
        /\ ~Processed(j) => AllNF(results[j])
        /\ Processed(j) =>
              LET p == repd_df[results[j].idx]
                  none == \A e \in 1..Len(ecr_df) : ~Reaches(p, ecr_df[e])
              IN  /\ AllNF(results[j]) <=> none
                  /\ ~none =>
                        /\ ~results[j].Matched_ECR_ID.nf
                        /\ ~results[j].Matching_Reason.nf
                        /\ results[j].Matching_Reason.v # <<>>
                        /\ Head(results[j].Matching_Reason.v) = "spatial"
                  /\ \A k \in 1..Len(scored[j]) : ScoreOf(scored[j], k) >= 1

\* a finished run with a record left at "NF" and a record matched
C5_Witness ==
    /\ pc = "done"
    /\ \E j \in 1..Len(results) : AllNF(results[j])
    /\ \E j \in 1..Len(results) :
          /\ ~results[j].Matched_ECR_ID.nf
          /\ Head(results[j].Matching_Reason.v) = "spatial"

\* C6: for every scored pair the capacity signal is triggered exactly when
\* both loaded capacities are numeric and |project - connection| is at most a
\* tenth of the project capacity, the boundary included (for 100: 109, 110
\* and 90 trigger, 111 and 89 do not); a missing capacity never triggers it.
C6_CapacityTolerance ==
    /\ \A j \in 1..Len(repd) : \A k \in 1..Len(scored[j]) :
          LET rc == repd_df[repd[j].idx].Installed_Capacity
              ec == ecr_df[scored[j][k].ecr_idx].Accepted_to_Connect_Registered_
              expected == /\ IsNumeric(rc)
                          /\ IsNumeric(ec)
                          /\ 10 * Abs(rc.v - ec.v) <= rc.v
          IN  ("capacity" \in Range(scored[j][k].m.match_reasons)) <=> expected
    /\ CapacityMatch(Num(100), Num(109))
    /\ CapacityMatch(Num(100), Num(110))
    /\ CapacityMatch(Num(100), Num(90))
    /\ ~CapacityMatch(Num(100), Num(111))
    /\ ~CapacityMatch(Num(100), Num(89))
    /\ ~CapacityMatch(NaN, Num(100))
    /\ ~CapacityMatch(Num(100), NaN)

\* one project record scored against a connection capacity on the boundary
\* (110 for 100), which triggers, and one just beyond it (111), which does not
C6_Witness ==
    \E j \in 1..Len(repd) : \E k, l \in 1..Len(scored[j]) :
        /\ repd_df[repd[j].idx].Installed_Capacity = Num(100)
        /\ ecr_df[scored[j][k].ecr_idx].Accepted_to_Connect_Registered_ = Txt(110)
        /\ "capacity" \in Range(scored[j][k].m.match_reasons)
        /\ ecr_df[scored[j][l].ecr_idx].Accepted_to_Connect_Registered_ = Num(111)
        /\ "capacity" \notin Range(scored[j][l].m.match_reasons)

\* the postcode as the claim normalises it: an absent postcode is the empty
\* string
ClaimedPostcode(c) == Lower(RemoveSpaces(IF c.k = "nan" THEN <<>> ELSE c.s))

\* C7 as claimed: for every scored pair the postcode signal is triggered exactly
\* when the two postcodes, an absent one taken as the empty string, are
\* non-empty and equal once spaces are removed and case is lowered.
C7_PostcodeNeverOnAbsent ==
    \A j \in 1..Len(repd) : \A k \in 1..Len(scored[j]) :
        LET p == ClaimedPostcode(repd_df[repd[j].idx].Post_Code)
            e == ClaimedPostcode(ecr_df[scored[j][k].ecr_idx].Postcode)
        IN  ("postcode" \in Range(scored[j][k].m.match_reasons))
                <=> (p # <<>> /\ p = e)

\* C8: the table is shown and exported only once the loop has passed every
\* project record of the range, and then it is the whole result table; a run
\* stopped on its bounds or on the geometries has matched no record and shows
\* and exports nothing.
C8_FullTableOrNothing ==
    /\ output.shown =>
          /\ pc = "done"
          /\ i = Len(repd) + 1
          /\ output.table = results
    /\ ~output.shown => output = NoOutput
    /\ pc = "done" => output.shown
    /\ pc = "aborted" =>
          /\ ~output.shown
          /\ error # "none"
          /\ results = <<>>
          /\ queries = <<>>
          /\ scored = <<>>
    /\ pc # "aborted" => error = "none"

\* the table shown after the loop has passed two project records
C8_Witness ==
    /\ output.shown
    /\ Len(output.table) = 2
    /\ i = 3
    /\ \E j \in 1..2 : ~output.table[j].Matched_ECR_ID.nf

\* the same value, a number and the text of that number taken as the same
SameValue(a, b) == a = b \/ (IsNumeric(a) /\ IsNumeric(b) /\ a.v = b.v)

\* C9 as claimed: every original column of every output row holds the value
\* of the loaded table.
C9_ColumnsIdentical ==
    output.shown =>
        \A r \in 1..Len(output.table) :
            LET row == output.table[r]
                o == repd_df[row.idx]
            IN  /\ SameValue(row.REPD_ID, o.REPD_ID)
                /\ SameValue(row.X_coordinate, o.X_coordinate)
                /\ SameValue(row.Y_coordinate, o.Y_coordinate)
                /\ SameValue(row.Installed_Capacity, o.Installed_Capacity)
                /\ row.Operator = o.Operator
                /\ row.Site_Name = o.Site_Name
                /\ row.Address = o.Address
                /\ row.Post_Code = o.Post_Code

\* what a loaded id, coordinate or capacity is in the output: a number as it
\* was, numeric text as its number, anything else as the missing marker
AsOutput(c) ==
    IF c.k = "num" THEN c
    ELSE IF c.k = "txt" THEN [k |-> "num", v |-> c.v]
    ELSE [k |-> "nan", v |-> 0]

\* C9 amended: in every output row the text columns hold the loaded values,
\* the id, the coordinates and the capacity hold the loaded value coerced to a
\* number (unparsable or empty: missing).
C9_ColumnsCoercedOnly ==
    output.shown =>
        \A r \in 1..Len(output.table) :
            LET row == output.table[r]
                o == repd_df[row.idx]
            IN  /\ row.REPD_ID = AsOutput(o.REPD_ID)
                /\ row.X_coordinate = AsOutput(o.X_coordinate)
                /\ row.Y_coordinate = AsOutput(o.Y_coordinate)
                /\ row.Installed_Capacity = AsOutput(o.Installed_Capacity)
                /\ row.Operator = o.Operator
                /\ row.Site_Name = o.Site_Name
                /\ row.Address = o.Address
                /\ row.Post_Code = o.Post_Code

\* an output row whose loaded x coordinate did not parse and whose loaded
\* capacity was numeric text
C9_Witness ==
    /\ output.shown
    /\ \E r \in 1..Len(output.table) :
          /\ repd_df[output.table[r].idx].X_coordinate = Bad
          /\ repd_df[output.table[r].idx].Installed_Capacity = Txt(100)

\* the place of a signal in the order the scorer evaluates them
Rank(reason) ==
    CASE reason = "spatial" -> 1
      [] reason = "capacity" -> 2
      [] reason = "text(GrpA)" -> 3
      [] reason = "text(GrpB)" -> 4
      [] reason = "postcode" -> 5
      [] OTHER -> 0

\* the tag of the evidence string of a signal
EvTag(reason) ==
    CASE reason = "capacity" -> "capacity"
      [] reason = "text(GrpA)" -> "textA"
      [] reason = "text(GrpB)" -> "textB"
      [] reason = "postcode" -> "postcode"
      [] OTHER -> "none"

\* C10: the reasons and both evidence lists of a matched record are those
\* computed for the candidate written as the match; each evidence list has one
\* entry per triggered non-spatial signal, in the order of the reasons, which
\* is spatial, capacity, text(GrpA), text(GrpB), postcode; the connection
\* side's capacity and text evidence is that of the matched connection record.
C10_EvidenceOfWinner ==
    \A j \in 1..Len(results) :
        (Processed(j) /\ ~results[j].Matched_ECR_ID.nf) =>
            LET row == results[j]
                reasons == row.Matching_Reason.v
                dr == row.Matched_Details_REPD.v
                de == row.Matched_Details_ECR.v
                won == ecr_df[row.Matched_ECR_ID.v]
            IN  /\ \E w \in 1..Len(scored[j]) :
                      /\ MatchedTo(row, scored[j][w].ecr_idx)
                      /\ reasons = scored[j][w].m.match_reasons
                      /\ dr = scored[j][w].m.match_repd
                      /\ de = scored[j][w].m.match_ecr
                /\ Len(dr) = Len(reasons) - 1
                /\ Len(de) = Len(reasons) - 1
                /\ \A n \in 1..(Len(reasons) - 1) :
                      /\ Rank(reasons[n]) < Rank(reasons[n + 1])
                      /\ dr[n].tag = EvTag(reasons[n + 1])
                      /\ de[n].tag = EvTag(reasons[n + 1])
                /\ \A n \in 1..Len(de) :
                      /\ de[n].tag = "capacity" =>
                            de[n].val = AsOutput(won.Accepted_to_Connect_Registered_)
                      /\ de[n].tag = "textA" =>
                            de[n].val = won.Customer_Name.s \o <<" ">>
                                            \o won.Customer_Site.s

\* a match with two signals beyond place, won against a later candidate whose
\* reasons differ
C10_Witness ==
    \E j \in 1..Len(results) :
        /\ Processed(j)
        /\ ~results[j].Matched_ECR_ID.nf
        /\ Len(results[j].Matching_Reason.v) >= 3
        /\ \E w \in 1..(Len(scored[j]) - 1) :
              /\ MatchedTo(results[j], scored[j][w].ecr_idx)
              /\ scored[j][Len(scored[j])].m.match_reasons
                    # results[j].Matching_Reason.v

====
